---- MODULE Spec2Model ----
(***************************************************************************)
(* Gesture-driven particle tree: the shared zustand store, the vision      *)
(* detection loop that writes the gesture signal, the morph progress       *)
(* advanced by LuxuryTree's frame callback, the camera rig, the orbit      *)
(* controls flag and the photo-panel binding.                              *)
(*                                                                         *)
(* Fixed-point units.  Real numbers of the program are integers here:      *)
(*   hand coordinates (landmarks, handX/handY/handZ)  hundredths           *)
(*   morph progress                                   1/ProgressOne        *)
(*   frame delta                                      1/DeltaDen seconds   *)
(*   camera coordinates                               tenths               *)
(*   angles and trigonometric values                  thousandths          *)
(* A React render that follows a store write is part of the action that    *)
(* writes: the values of the useTreeStore() hooks are those of the store.  *)
(***************************************************************************)
EXTENDS Integers, Sequences, FiniteSets, TLC

VARIABLES
    handX, handY, handZ, isTracking, isHandOpen,  \* store.ts: gesture signal
    userPhotos,                                   \* store.ts: photo list
    status, visionPc, videoStarted,               \* VisionManager
    mounted,                                      \* VisionManager is mounted
    streamLive,                                   \* the webcam stream's tracks
    cycleWrites,                                  \* store writes of the last detection cycle
    cycleResult,                                  \* what the last detection cycle found
    cycleSignal,                                  \* the signal the last writing cycle computed
    progressRef, target,                          \* LuxuryTree
    fineProgress,                                 \* progressRef in 1/FineOne
    holdTicks,                                    \* ticks of the held gesture so far
    currentPos, targetPos, cameraPosition,        \* GestureController, camera
    trackedFrames,                                \* tracked camera frames so far
    orbitEnabled,                                 \* <OrbitControls enabled=...>
    photoUrl, slotView,                           \* Polaroids / SinglePolaroid
    lastBatch,                                    \* argument of the last addUserPhotos
    sample, classified,                           \* isHandOpen applied to a sample
    viewport,                                     \* useThree().viewport, << width, height >>
    groups,                                       \* the particle groups' generated data
    instancePos,                                  \* currentPos of every instance
    polaroidRot,                                  \* rotation of every photo panel
    starPos, starScale,                           \* HolyStar's group
    sceneSteps,                                   \* frames, uploads and viewport changes so far
    frameProgress, frameDelta,                    \* what the last frame's callbacks read
    props, built, builtPos,                       \* a group built from given props
    chaosArgs, chaosPos,                          \* getChaosPos applied to given draws
    isProcessing, showPrivacyModal,               \* App: upload state
    pickerOpen,                                   \* the file dialog of the hidden input
    uploads,                                      \* upload batches in flight
    lastFiles,                                    \* the files of the batch that ended last
    lastOp                                        \* the handler that ran last

vars == << handX, handY, handZ, isTracking, isHandOpen, userPhotos,
           status, visionPc, videoStarted, mounted, streamLive,
           cycleWrites, cycleResult, cycleSignal, progressRef, target,
           fineProgress, holdTicks,
           currentPos, targetPos, cameraPosition, trackedFrames, orbitEnabled,
           photoUrl, slotView, lastBatch, sample, classified,
           viewport, groups, instancePos, polaroidRot, starPos, starScale,
           sceneSteps, frameProgress, frameDelta, props, built, builtPos,
           chaosArgs, chaosPos, isProcessing, showPrivacyModal, pickerOpen,
           uploads, lastFiles, lastOp >>

signalVars == << handX, handY, handZ, isTracking, isHandOpen >>
visionVars == << status, visionPc, videoStarted, mounted, streamLive,
                cycleWrites, cycleResult, cycleSignal >>
morphVars == << progressRef, target, fineProgress, holdTicks >>
cameraVars == << currentPos, targetPos, cameraPosition, trackedFrames >>
photoVars == << userPhotos, photoUrl, slotView, lastBatch >>
classifierVars == << sample, classified >>
sceneVars == << viewport, groups, instancePos, polaroidRot, starPos, starScale,
               sceneSteps, frameProgress, frameDelta >>
generatorVars == << props, built, builtPos >>
chaosVars == << chaosArgs, chaosPos >>
uploadVars == << isProcessing, showPrivacyModal, pickerOpen, uploads,
                lastFiles >>

(***************************************************************************)
(* Bounds of the model.                                                    *)
(***************************************************************************)
\* frame deltas are 0..MaxDelta units of 1/DeltaDen second
MaxDelta == 3
DeltaDen == 4
\* the photo list is explored up to MaxPhotos handles, batches up to MaxBatch
MaxPhotos == 3
MaxBatch == 2
\* |progress| explored up to ProgressLimit (in 1/ProgressOne)
ProgressLimit == 192
\* the camera rig is explored up to MaxTrackedFrames tracked frames
MaxTrackedFrames == 2
\* hand sizes 0..MaxHandZ (hundredths) are explored for the zoom mapping
MaxHandZ == 60
\* the held gesture is followed for HoldTicks ticks of 1/60 s
HoldTicks == 180
\* a particle group holds GroupSize particles (the text group twice as many
\* on a wide viewport); the scene is explored up to MaxSceneSteps rendered
\* frames, uploads and viewport changes
GroupSize == 2
MaxSceneSteps == 2

DeltaSet == 0..MaxDelta
PhotoHandles == {"photoA", "photoB"}

(***************************************************************************)
(* Arithmetic helpers.                                                     *)
(***************************************************************************)
Abs(n) == IF n < 0 THEN -n ELSE n

\* n / d rounded to the nearest integer (d > 0), as a float operation rounds
RoundDiv(n, d) == (2 * n + d) \div (2 * d)

\* THREE.MathUtils.lerp(x, y, t) = (1 - t) * x + t * y with t = tNum / tDen;
\* t is not clamped
MathUtilsLerp(x, y, tNum, tDen) == RoundDiv((tDen - tNum) * x + tNum * y, tDen)

(***************************************************************************)
(* The store (store.ts).                                                   *)
(***************************************************************************)
NeutralHand == 50

\* variant: a write that leaves the open flag as it was
setHandPositionKeepsOpen(x, y, z, tracking, open) ==
    /\ handX' = x
    /\ handY' = y
    /\ handZ' = z
    /\ isTracking' = tracking
    /\ isHandOpen' = isHandOpen

\* setHandPosition: writes the five gesture fields together
setHandPosition(x, y, z, tracking, open) ==
    /\ handX' = x
    /\ handY' = y
    /\ handZ' = z
    /\ isTracking' = tracking
    /\ isHandOpen' = open

\* variant: the batch is put in front of the list
addUserPhotosPrepend(list, photos) == photos \o list

\* addUserPhotos: [...state.userPhotos, ...photos]
addUserPhotosList(list, photos) == list \o photos

(***************************************************************************)
(* Rendering that depends on the store.                                    *)
(***************************************************************************)
\* variant: the controls stay enabled whatever the tracking flag
OrbitControlsAlways(tracking) == TRUE

\* <OrbitControls enabled={!isTracking} />
OrbitControlsEnabled(tracking) == ~tracking

count == 48
Slots == 0..(count - 1)
NoPhoto == "null"

\* variant: the slot index is off by one before the modulo
PhotoUrlShifted(i, photos) ==
    IF Len(photos) > 0 THEN photos[((i + 1) % Len(photos)) + 1] ELSE NoPhoto

\* Polaroids: userPhotos.length > 0 ? userPhotos[i % userPhotos.length] : null
PhotoUrlOf(i, photos) ==
    IF Len(photos) > 0 THEN photos[(i % Len(photos)) + 1] ELSE NoPhoto

\* variant: only the empty string counts as no photo
SlotViewOfNull(url) == IF url # "" THEN "PhotoPlane" ELSE "placeholder"

\* SinglePolaroid: photoUrl ? <PhotoPlane/> : placeholder mesh
SlotViewOf(url) == IF url # NoPhoto /\ url # "" THEN "PhotoPlane" ELSE "placeholder"

\* the rotation of a panel no frame callback has touched
NoRotation == [policy |-> "none"]

\* Polaroids renders its 48 SinglePolaroid children; the key of a child is
\* `${i}-${photoUrl || 'empty'}`, so a child whose photo changed is mounted
\* anew: currentPos = data.target.clone(), rotation as created
RenderPolaroids(photos) ==
    /\ photoUrl' = [i \in Slots |-> PhotoUrlOf(i, photos)]
    /\ slotView' = [i \in Slots |-> SlotViewOf(PhotoUrlOf(i, photos))]
    /\ instancePos' =
           [instancePos EXCEPT !["polaroids"] =
               [k \in DOMAIN @ |->
                   IF PhotoUrlOf(k - 1, photos) # photoUrl[k - 1]
                   THEN groups["polaroids"][k].formed ELSE @[k]]]
    /\ polaroidRot' =
           [k \in DOMAIN polaroidRot |->
               IF PhotoUrlOf(k - 1, photos) # photoUrl[k - 1]
               THEN NoRotation ELSE polaroidRot[k]]

(***************************************************************************)
(* Landmark classifier (VisionManager.isHandOpen and the position part of  *)
(* detect).  A hand sample is a function from the landmark index 0..20 to  *)
(* a point [x, y] in hundredths.                                           *)
(***************************************************************************)
LandmarkIndex == 0..20
Pt(px, py) == [x |-> px, y |-> py]

\* distSq: Math.pow(p1.x - p2.x, 2) + Math.pow(p1.y - p2.y, 2)
distSq(p1, p2) == (p1.x - p2.x) * (p1.x - p2.x) + (p1.y - p2.y) * (p1.y - p2.y)

\* Index, Middle, Ring, Pinky
fingerIndices == << [tip |-> 8, pip |-> 6], [tip |-> 12, pip |-> 10],
                    [tip |-> 16, pip |-> 14], [tip |-> 20, pip |-> 18] >>

\* the loop of isHandOpen over fingerIndices[k..4], counting openFingers
RECURSIVE openFingersFrom(_, _)
openFingersFrom(landmarks, k) ==
    IF k > Len(fingerIndices) THEN 0
    ELSE LET finger == fingerIndices[k]
             distTip == distSq(landmarks[0], landmarks[finger.tip])
             distPip == distSq(landmarks[0], landmarks[finger.pip])
         IN  (IF distTip > distPip THEN 1 ELSE 0) + openFingersFrom(landmarks, k + 1)

\* variant: two extended fingers are enough
isHandOpenTwo(landmarks) == openFingersFrom(landmarks, 1) >= 2

\* return openFingers >= 3
isHandOpenOf(landmarks) == openFingersFrom(landmarks, 1) >= 3

\* Math.sqrt on integers, rounded to the nearest integer
RECURSIVE SqrtBetween(_, _, _)
SqrtBetween(n, lo, hi) ==
    IF lo >= hi THEN lo
    ELSE LET mid == (lo + hi) \div 2
         IN  IF 4 * n < (2 * mid + 1) * (2 * mid + 1)
             THEN SqrtBetween(n, lo, mid)
             ELSE SqrtBetween(n, mid + 1, hi)

Sqrt(n) == SqrtBetween(n, 0, 256)

\* detect, hand branch: the signal computed from landmarks[9] and landmarks[0]
HandSignal(landmarks) ==
    LET center == landmarks[9]
        wrist == landmarks[0]
        dx == center.x - wrist.x
        dy == center.y - wrist.y
    IN  [x |-> 100 - center.x, y |-> center.y, z |-> Sqrt(dx * dx + dy * dy),
         tracking |-> TRUE, open |-> isHandOpenOf(landmarks)]

\* variant: the no-hand signal of the commented-out line, z = 0.2
NoHandSignalOld ==
    [x |-> NeutralHand, y |-> NeutralHand, z |-> 20,
     tracking |-> FALSE, open |-> FALSE]

\* variant: losing the hand clears the tracking flag only
NoHandSignalStillOpen ==
    [x |-> NeutralHand, y |-> NeutralHand, z |-> NeutralHand,
     tracking |-> FALSE, open |-> TRUE]

\* detect, no-hand branch: setHandPosition(0.5, 0.5, 0.5, false, false)
NoHandSignal ==
    [x |-> NeutralHand, y |-> NeutralHand, z |-> NeutralHand,
     tracking |-> FALSE, open |-> FALSE]

\* A hand with its center at (cx, cy), its wrist `size` below the center and
\* the first `ext` of the four fingers extended (tip farther than the PIP).
MkHand(cx, cy, size, ext) ==
    LET wrist == Pt(cx, cy + size)
        tipOf(k) == IF k <= ext THEN Pt(wrist.x, wrist.y - 6) ELSE Pt(wrist.x, wrist.y - 2)
    IN  [i \in LandmarkIndex |->
            CASE i = 0 -> wrist
              [] i = 9 -> Pt(cx, cy)
              [] i \in {6, 10, 14, 18} -> Pt(wrist.x, wrist.y - 4)
              [] i = 8 -> tipOf(1)
              [] i = 12 -> tipOf(2)
              [] i = 16 -> tipOf(3)
              [] i = 20 -> tipOf(4)
              [] OTHER -> wrist]

\* the hands the landmark source delivers to the morph specification
MorphHands == { MkHand(cx, 50, 20, ext) : cx \in {30, 50}, ext \in {2, 3} }

\* results.landmarks of one detectForVideo call with numHands: 1
ResultsOf(hands) == { << >> } \cup { << h >> : h \in hands }
MorphResults == ResultsOf(MorphHands)

(***************************************************************************)
(* VisionManager: setup, webcam, the detection loop and the teardown.      *)
(* visionPc: "init" (mounted, effect not run), "loading" (awaiting the     *)
(* model), "webcam" (awaiting getUserMedia), "stream" (srcObject set,      *)
(* awaiting loadeddata), "detecting" (loop running), "failed",             *)
(* "detached" (stream obtained after the unmount, never attached),         *)
(* "cancelled" (no frame request pending).                                 *)
(* streamLive: "none" (no stream yet), "live", "stopped".                  *)
(***************************************************************************)
\* setStatus of a component: a no-op once the component is unmounted
SetStatus(isMounted, old, new) == IF isMounted THEN new ELSE old

\* setupVision up to its first await
SetupVision ==
    /\ visionPc = "init"
    /\ visionPc' = "loading"
    /\ status' = SetStatus(mounted, status, "LOADING_MODEL")
    /\ lastOp' = "setupVision"
    /\ UNCHANGED << signalVars, videoStarted, mounted, streamLive,
                    cycleWrites, cycleResult, cycleSignal, morphVars, cameraVars,
                    orbitEnabled, photoVars, classifierVars,
                    sceneVars, generatorVars, chaosVars, uploadVars >>

\* the model loads: setStatus(READY); startWebcam() up to getUserMedia
ModelLoaded ==
    /\ visionPc = "loading"
    /\ visionPc' = "webcam"
    /\ status' = SetStatus(mounted, status, "READY")
    /\ lastOp' = "modelLoaded"
    /\ UNCHANGED << signalVars, videoStarted, mounted, streamLive,
                    cycleWrites, cycleResult, cycleSignal, morphVars, cameraVars,
                    orbitEnabled, photoVars, classifierVars,
                    sceneVars, generatorVars, chaosVars, uploadVars >>

\* an await of setupVision rejects: catch, setStatus(ERROR)
ModelFailed ==
    /\ visionPc = "loading"
    /\ visionPc' = "failed"
    /\ status' = SetStatus(mounted, status, "ERROR")
    /\ lastOp' = "modelFailed"
    /\ UNCHANGED << signalVars, videoStarted, mounted, streamLive,
                    cycleWrites, cycleResult, cycleSignal, morphVars, cameraVars,
                    orbitEnabled, photoVars, classifierVars,
                    sceneVars, generatorVars, chaosVars, uploadVars >>

\* getUserMedia resolves: if (videoRef.current) { srcObject = stream;
\* loadeddata listener added }; the ref is null once unmounted
WebcamGranted ==
    /\ visionPc = "webcam"
    /\ visionPc' = IF mounted THEN "stream" ELSE "detached"
    /\ streamLive' = "live"
    /\ lastOp' = "webcamGranted"
    /\ UNCHANGED << signalVars, status, videoStarted, mounted,
                    cycleWrites, cycleResult, cycleSignal, morphVars,
                    cameraVars, orbitEnabled, photoVars, classifierVars,
                    sceneVars, generatorVars, chaosVars, uploadVars >>

\* variant: a denied webcam sends the status back to LOADING_MODEL
WebcamDeniedReloads ==
    /\ visionPc = "webcam"
    /\ visionPc' = "failed"
    /\ status' = SetStatus(mounted, status, "LOADING_MODEL")
    /\ lastOp' = "webcamDenied"
    /\ UNCHANGED << signalVars, videoStarted, mounted, streamLive,
                    cycleWrites, cycleResult, cycleSignal, morphVars, cameraVars,
                    orbitEnabled, photoVars, classifierVars,
                    sceneVars, generatorVars, chaosVars, uploadVars >>

\* getUserMedia rejects: catch, setStatus(ERROR)
WebcamDenied ==
    /\ visionPc = "webcam"
    /\ visionPc' = "failed"
    /\ status' = SetStatus(mounted, status, "ERROR")
    /\ lastOp' = "webcamDenied"
    /\ UNCHANGED << signalVars, videoStarted, mounted, streamLive,
                    cycleWrites, cycleResult, cycleSignal, morphVars, cameraVars,
                    orbitEnabled, photoVars, classifierVars,
                    sceneVars, generatorVars, chaosVars, uploadVars >>

\* the video element plays the stream: video.currentTime becomes > 0
VideoPlays ==
    /\ visionPc \in {"stream", "detecting"}
    /\ streamLive = "live"
    /\ ~videoStarted
    /\ videoStarted' = TRUE
    /\ lastOp' = "videoPlays"
    /\ UNCHANGED << signalVars, status, visionPc, mounted, streamLive,
                    cycleWrites, cycleResult, cycleSignal, morphVars,
                    cameraVars, orbitEnabled, photoVars, classifierVars,
                    sceneVars, generatorVars, chaosVars, uploadVars >>

\* variant: a cleanup that leaves the pending frame request in place
PcAfterCleanupKeepsLoop(pc) == pc

\* cancelAnimationFrame(requestRef.current): the pending detect() is dropped
PcAfterCleanup(pc) == IF pc = "detecting" THEN "cancelled" ELSE pc

\* the tracks after the cleanup: stopped when videoRef.current is still set
\* and has a srcObject
TracksAfterCleanup(refSet, pc, live) ==
    IF refSet /\ pc \in {"stream", "detecting"} THEN "stopped" ELSE live

\* the component unmounts: the effect's cleanup runs.  Whether the video ref
\* is still attached when a passive cleanup runs depends on the React
\* version, so both outcomes are taken.
Unmount ==
    /\ mounted
    /\ visionPc # "init"
    /\ mounted' = FALSE
    /\ \E refSet \in BOOLEAN :
           streamLive' = TracksAfterCleanup(refSet, visionPc, streamLive)
    /\ visionPc' = PcAfterCleanup(visionPc)
    /\ lastOp' = "unmount"
    /\ UNCHANGED << signalVars, status, videoStarted, cycleWrites, cycleResult, cycleSignal,
                    morphVars, cameraVars, orbitEnabled, photoVars,
                    classifierVars,
                    sceneVars, generatorVars, chaosVars, uploadVars >>

\* the signal a cycle writes for the given results.landmarks
CycleSignal(results) ==
    IF Len(results) > 0 THEN HandSignal(results[1]) ELSE NoHandSignal

\* does the cycle take the branch that writes (video.currentTime > 0)
CycleWrites(started) == started

\* variant: a cycle that finds no hand gives up, as a failed setup does
AfterCycleNoHandFails(results, started, oldStatus) ==
    IF started /\ Len(results) = 0
    THEN [pc |-> "failed", status |-> "ERROR"]
    ELSE [pc |-> "detecting", status |-> oldStatus]

\* the end of detect(): requestAnimationFrame(detect) whatever the cycle
\* found; no branch of detect() calls setStatus
AfterCycle(results, started, oldStatus) ==
    [pc |-> "detecting", status |-> oldStatus]

\* variant: a cycle that finds no hand keeps the last known signal
DetectCycleKeepsLast(results) ==
    /\ IF CycleWrites(videoStarted) /\ Len(results) > 0
       THEN LET sig == CycleSignal(results)
            IN  /\ setHandPosition(sig.x, sig.y, sig.z, sig.tracking, sig.open)
                /\ cycleWrites' = 1
                /\ cycleResult' = "hand"
                /\ cycleSignal' = sig
       ELSE /\ UNCHANGED << signalVars, cycleSignal >>
            /\ cycleWrites' = 0
            /\ cycleResult' = IF CycleWrites(videoStarted) THEN "noHand" ELSE "skipped"
    /\ orbitEnabled' = OrbitControlsEnabled(isTracking')
    /\ visionPc' = AfterCycle(results, videoStarted, status).pc
    /\ status' = AfterCycle(results, videoStarted, status).status

\* one run of detect(): the body of the loop, and the store's subscribers
\* re-rendered
DetectCycle(results) ==
    /\ IF CycleWrites(videoStarted)
       THEN LET sig == CycleSignal(results)
            IN  /\ setHandPosition(sig.x, sig.y, sig.z, sig.tracking, sig.open)
                /\ cycleWrites' = 1
                /\ cycleResult' = IF Len(results) > 0 THEN "hand" ELSE "noHand"
                /\ cycleSignal' = sig
       ELSE /\ UNCHANGED << signalVars, cycleSignal >>
            /\ cycleWrites' = 0
            /\ cycleResult' = "skipped"
    /\ orbitEnabled' = OrbitControlsEnabled(isTracking')
    /\ visionPc' = AfterCycle(results, videoStarted, status).pc
    /\ status' = AfterCycle(results, videoStarted, status).status

\* 'loadeddata': predictWebcam() runs detect() once and schedules the next;
\* it returns at once when the video or canvas ref is null (unmounted)
LoadedData(resultSet) ==
    /\ visionPc = "stream"
    /\ IF mounted
       THEN /\ \E results \in resultSet : DetectCycle(results)
            /\ lastOp' = "detect"
       ELSE /\ visionPc' = "cancelled"
            /\ lastOp' = "loadedData"
            /\ UNCHANGED << signalVars, status, cycleWrites, cycleResult, cycleSignal,
                            orbitEnabled >>
    /\ UNCHANGED << videoStarted, mounted, streamLive, morphVars,
                    cameraVars, photoVars, classifierVars,
                    sceneVars, generatorVars, chaosVars, uploadVars >>

\* requestAnimationFrame(detect) fires
Detect(resultSet) ==
    /\ visionPc = "detecting"
    /\ \E results \in resultSet : DetectCycle(results)
    /\ lastOp' = "detect"
    /\ UNCHANGED << videoStarted, mounted, streamLive,
                    morphVars, cameraVars, photoVars, classifierVars,
                    sceneVars, generatorVars, chaosVars, uploadVars >>

(***************************************************************************)
(* LuxuryTree: the morph progress.                                         *)
(***************************************************************************)
\* const target = isHandOpen ? 1 : 0
ProgressOne == 64

\* variant: the target stays at 1 while progress is past the half
TargetOfSticky(open) ==
    IF open \/ progressRef > ProgressOne \div 2 THEN ProgressOne ELSE 0

TargetOf(open) == IF open THEN ProgressOne ELSE 0

\* variant: the rate constant is 1.0
ProgressStepRateOne(progress, tgt, dNum, dDen) ==
    MathUtilsLerp(progress, tgt, dNum, dDen)

\* progressRef.current = lerp(progressRef.current, target, delta * 2.0)
ProgressStep(progress, tgt, dNum, dDen) == MathUtilsLerp(progress, tgt, dNum * 2, dDen)

\* LuxuryTree's useFrame callback (the group's rotation.y is not modelled:
\* nothing reads it)
LuxuryTreeFrame ==
    \E delta \in DeltaSet :
        /\ target' = TargetOf(isHandOpen)
        /\ progressRef' = ProgressStep(progressRef, target', delta, DeltaDen)
        /\ Abs(progressRef') <= ProgressLimit
        /\ lastOp' = "treeFrame"
        /\ UNCHANGED << signalVars, visionVars, cameraVars, orbitEnabled,
                        photoVars, classifierVars, fineProgress, holdTicks,
                    sceneVars, generatorVars, chaosVars, uploadVars >>

\* the resolution of fineProgress: progress 1 is FineOne (a million)
FineOne == ProgressOne * 15625

\* LuxuryTree's useFrame callback at 60 frames a second (delta = 1/60), the
\* progress kept to 1/FineOne; progressRef is the same value to 1/ProgressOne
HoldFrame ==
    /\ holdTicks < HoldTicks
    /\ holdTicks' = holdTicks + 1
    /\ target' = TargetOf(isHandOpen)
    /\ fineProgress' =
           ProgressStep(fineProgress, (target' * FineOne) \div ProgressOne, 1, 60)
    /\ progressRef' = RoundDiv(fineProgress' * ProgressOne, FineOne)
    /\ lastOp' = "treeFrame"
    /\ UNCHANGED << signalVars, visionVars, cameraVars, orbitEnabled,
                    photoVars, classifierVars,
                    sceneVars, generatorVars, chaosVars, uploadVars >>

(***************************************************************************)
(* Photo uploads reach the store through addUserPhotos.                    *)
(***************************************************************************)
RECURSIVE SeqsUpTo(_, _)
SeqsUpTo(S, n) ==
    IF n = 0 THEN { << >> }
    ELSE LET shorter == SeqsUpTo(S, n - 1)
         IN  shorter \cup { Append(q, e) : q \in shorter, e \in S }

PhotoBatches == SeqsUpTo(PhotoHandles, MaxBatch)

\* variant: the store's addUserPhotos also resets the gesture signal
AddUserPhotosResetsSignal ==
    \E photos \in PhotoBatches :
        /\ Len(userPhotos) + Len(photos) <= MaxPhotos
        /\ sceneSteps < MaxSceneSteps
        /\ sceneSteps' = sceneSteps + 1
        /\ userPhotos' = addUserPhotosList(userPhotos, photos)
        /\ setHandPosition(NeutralHand, NeutralHand, NeutralHand, FALSE, FALSE)
        /\ RenderPolaroids(userPhotos')
        /\ lastBatch' = photos
        /\ lastOp' = "addUserPhotos"
        /\ UNCHANGED << visionVars, morphVars, cameraVars,
                        orbitEnabled, classifierVars, generatorVars, chaosVars,
                        uploadVars, viewport, groups, starPos, starScale,
                        frameProgress, frameDelta >>

\* the store's addUserPhotos called with a list of handles, and the photo
\* panels rendered again
AddUserPhotos ==
    \E photos \in PhotoBatches :
        /\ Len(userPhotos) + Len(photos) <= MaxPhotos
        /\ sceneSteps < MaxSceneSteps
        /\ sceneSteps' = sceneSteps + 1
        /\ userPhotos' = addUserPhotosList(userPhotos, photos)
        /\ RenderPolaroids(userPhotos')
        /\ lastBatch' = photos
        /\ lastOp' = "addUserPhotos"
        /\ UNCHANGED << signalVars, visionVars, morphVars, cameraVars,
                        orbitEnabled, classifierVars, generatorVars, chaosVars, uploadVars,
                        viewport, groups, starPos, starScale,
                        frameProgress, frameDelta >>

(***************************************************************************)
(* GestureController: the camera rig, and the orbit controls.              *)
(* A position is << x, y, z >> in tenths.                                  *)
(***************************************************************************)
\* Math.sin and Math.cos of an angle in thousandths of a radian, |a| <= 1250,
\* by their Taylor series to a thousandth
Sin(a) ==
    LET x2 == RoundDiv(a * a, 1000)
        t1 == 1000 - RoundDiv(x2 * 1000, 42000)
        t2 == 1000 - RoundDiv(x2 * t1, 20000)
        t3 == 1000 - RoundDiv(x2 * t2, 6000)
    IN  RoundDiv(a * t3, 1000)

Cos(a) ==
    LET x2 == RoundDiv(a * a, 1000)
        t1 == 1000 - RoundDiv(x2 * 1000, 56000)
        t2 == 1000 - RoundDiv(x2 * t1, 30000)
        t3 == 1000 - RoundDiv(x2 * t2, 12000)
    IN  1000 - RoundDiv(x2 * t3, 2000)

\* THREE.MathUtils.clamp
Clamp(v, lo, hi) == IF v < lo THEN lo ELSE IF v > hi THEN hi ELSE v

\* THREE.MathUtils.mapLinear(x, a1, a2, b1, b2)
MapLinear(v, a1, a2, b1, b2) == b1 + RoundDiv((v - a1) * (b2 - b1), a2 - a1)

\* const azimuth = (handX - 0.5) * 2.5, in thousandths of a radian
Azimuth(hx) == (hx - 50) * 25

\* const elevation = lerp(8, -2, handY)
Elevation(hy) == MathUtilsLerp(80, -20, hy, 100)

\* the configured distance range, far and near, in tenths
DistanceFar == 350
DistanceNear == 100

\* variant: the hand size is mapped without being clamped first
DistanceUnclamped(hz) == MapLinear(hz, 5, 35, DistanceFar, DistanceNear)

\* clamp(handZ, 0.05, 0.35) then mapLinear(zInput, 0.05, 0.35, 35, 10)
Distance(hz) == MapLinear(Clamp(hz, 5, 35), 5, 35, DistanceFar, DistanceNear)

\* targetPos.current.set(distance * sin(azimuth), elevation, distance * cos(azimuth))
TargetPosOf(hx, hy, hz) ==
    << RoundDiv(Distance(hz) * Sin(Azimuth(hx)), 1000),
       Elevation(hy),
       RoundDiv(Distance(hz) * Cos(Azimuth(hx)), 1000) >>

\* Vector3.lerp(v, alpha): this += (v - this) * alpha, alpha = aNum / aDen
Vector3Lerp(from, to, aNum, aDen) ==
    [k \in 1..3 |-> from[k] + RoundDiv((to[k] - from[k]) * aNum, aDen)]

\* tracked branch: currentPos.current.lerp(targetPos.current, delta * 3)
TrackedCurrentPos(cur, tgt, dNum, dDen) == Vector3Lerp(cur, tgt, dNum * 3, dDen)

DefaultPose == << 0, 15, 180 >>

\* variant: an untracked frame eases the rig back toward the default pose
UntrackedDriftToDefault(cur, cam) == Vector3Lerp(cam, DefaultPose, 1, 2)

\* untracked branch: currentPos.current.copy(camera.position)
UntrackedCurrentPos(cur, cam) == cam

\* GestureController's useFrame callback
GestureControllerFrame ==
    \E delta \in DeltaSet :
        /\ IF isTracking
           THEN /\ trackedFrames < MaxTrackedFrames
                /\ trackedFrames' = trackedFrames + 1
                /\ targetPos' = TargetPosOf(handX, handY, handZ)
                /\ currentPos' = TrackedCurrentPos(currentPos, targetPos', delta, DeltaDen)
                /\ cameraPosition' = currentPos'
           ELSE /\ currentPos' = UntrackedCurrentPos(currentPos, cameraPosition)
                /\ UNCHANGED << targetPos, cameraPosition, trackedFrames >>
        /\ lastOp' = "cameraFrame"
        /\ UNCHANGED << signalVars, visionVars, morphVars, orbitEnabled,
                        photoVars, classifierVars,
                    sceneVars, generatorVars, chaosVars, uploadVars >>

\* the poses a user drags or zooms the camera to with the orbit controls
OrbitPoses == { << 120, 15, 130 >>, << -60, 40, 90 >> }

\* <OrbitControls enabled={!isTracking}>: while enabled, user input moves the camera
OrbitMove ==
    /\ orbitEnabled
    /\ \E pose \in OrbitPoses :
        /\ pose # cameraPosition
        /\ cameraPosition' = pose
    /\ lastOp' = "orbitMove"
    /\ UNCHANGED << signalVars, visionVars, morphVars, currentPos, targetPos,
                    trackedFrames, orbitEnabled, photoVars, classifierVars,
                    sceneVars, generatorVars, chaosVars, uploadVars >>

\* the hands the landmark source delivers to the camera specification
CameraHands == { MkHand(20, 50, 2, 3), MkHand(50, 30, 50, 3) }
CameraResults == ResultsOf(CameraHands)

(***************************************************************************)
(* The classifier applied to one sample.                                   *)
(***************************************************************************)
\* the places of a tip or a PIP relative to the wrist: at squared distance 4,
\* at squared distance 16, and two different points at squared distance 16
ClassifierOffsets == { Pt(0, -2), Pt(0, -4), Pt(4, 0) }

ClassifierHands ==
    { [i \in LandmarkIndex |->
          CASE i = 0 -> Pt(50, 70)
            [] i = 9 -> Pt(50, 50)
            [] i \in {6, 8, 10, 12, 14, 16, 18, 20} ->
                  Pt(50 + off[i].x, 70 + off[i].y)
            [] OTHER -> Pt(50, 70)]
      : off \in [{6, 8, 10, 12, 14, 16, 18, 20} -> ClassifierOffsets] }

\* isHandOpen(landmarks) is called on the sample
Classify ==
    /\ classified = "none"
    /\ classified' = IF isHandOpenOf(sample) THEN "open" ELSE "closed"
    /\ lastOp' = "classify"
    /\ UNCHANGED << signalVars, visionVars, morphVars, cameraVars, orbitEnabled,
                    photoVars, sample, sceneVars, generatorVars, chaosVars, uploadVars >>

(***************************************************************************)
(* Particle groups: the generators of LuxuryTree's children.               *)
(* Scene coordinates are hundredths; a Math.random() value, a height       *)
(* fraction t and a ratio are thousandths.  A particle group is a sequence *)
(* (index i of the code is place i + 1).                                   *)
(***************************************************************************)
TwoPi == 6283
GOLDEN_ANGLE == 2400
TREE_HEIGHT == 700
TREE_WIDTH == 350

\* Math.random(): draw k of the page load identified by seed
Random(seed, k) == (seed * 389 + k * 617 + seed * k * 53) % 1000

\* an angle brought into (-pi, pi]
Reduced(a) ==
    LET b == a % TwoPi
    IN  IF 2 * b > TwoPi THEN b - TwoPi ELSE b

\* Math.sin and Math.cos of any angle, by the quarter-turn symmetries
SinAny(a) ==
    LET b == Reduced(a)
        half == TwoPi \div 2
    IN  IF 4 * b > TwoPi THEN Sin(half - b)
        ELSE IF 4 * b < -TwoPi THEN Sin(-half - b)
        ELSE Sin(b)

CosAny(a) ==
    LET b == Reduced(a)
        half == TwoPi \div 2
    IN  IF 4 * b > TwoPi THEN -Cos(half - b)
        ELSE IF 4 * b < -TwoPi THEN -Cos(-half - b)
        ELSE Cos(b)

\* Math.sqrt of q thousandths, in thousandths
SqrtMilli(q) == SqrtBetween(q * 1000, 0, 1024)

\* Math.cbrt of q thousandths, in thousandths (rounded down)
RECURSIVE CbrtBetween(_, _, _)
CbrtBetween(n, lo, hi) ==
    IF lo >= hi THEN lo
    ELSE LET mid == (lo + hi + 1) \div 2
         IN  IF mid * mid * mid <= n
             THEN CbrtBetween(n, mid, hi)
             ELSE CbrtBetween(n, lo, mid - 1)

CbrtMilli(q) == CbrtBetween(q * 1000000, 0, 1000)

\* variant: the radius is drawn from the whole ball, r = cbrt(u3) * scale
getChaosPosSolid(scale, minRatio, u1, u2, u3) ==
    LET theta == RoundDiv(u1 * TwoPi, 1000)
        cosPhi == 2 * u2 - 1000
        sinPhi == SqrtBetween(1000000 - cosPhi * cosPhi, 0, 1024)
        r == RoundDiv(CbrtMilli(u3) * scale, 10)
        rSin == RoundDiv(r * sinPhi, 1000)
    IN  << RoundDiv(rSin * CosAny(theta), 1000),
           RoundDiv(rSin * SinAny(theta), 1000),
           RoundDiv(r * cosPhi, 1000) >>

\* getChaosPos(scale, minRatio) with its three Math.random() values:
\* cos(phi) = 2 * u2 - 1 and sin(phi) = sqrt(1 - cos(phi)^2) for
\* phi = acos(2 * u2 - 1)
getChaosPos(scale, minRatio, u1, u2, u3) ==
    LET theta == RoundDiv(u1 * TwoPi, 1000)
        cosPhi == 2 * u2 - 1000
        sinPhi == SqrtBetween(1000000 - cosPhi * cosPhi, 0, 1024)
        minVol == RoundDiv(minRatio * minRatio * minRatio, 1000000)
        rRandom == RoundDiv(u3 * (1000 - minVol), 1000) + minVol
        r == RoundDiv(CbrtMilli(rRandom) * scale, 10)
        rSin == RoundDiv(r * sinPhi, 1000)
    IN  << RoundDiv(rSin * CosAny(theta), 1000),
           RoundDiv(rSin * SinAny(theta), 1000),
           RoundDiv(r * cosPhi, 1000) >>

\* getTreePos(t, theta, height, width)
getTreePos(t, theta, height, width) ==
    LET y == RoundDiv(height * t, 1000) - height \div 2
        radius == RoundDiv(width * (1000 - t), 1000)
    IN  << RoundDiv(radius * CosAny(theta), 1000),
           y,
           RoundDiv(radius * SinAny(theta), 1000) >>

\* t = 1 - Math.sqrt((i + 1) / (count + 1))
ShellT(i, n) == 1000 - SqrtMilli(RoundDiv((i + 1) * 1000, n + 1))

\* Foliage.useMemo: particle i of n; noiseAmp = 0.05
FoliageParticle(seed, i, n) ==
    LET u(j) == Random(seed, 7 * i + j)
        tPos == getTreePos(ShellT(i, n), i * GOLDEN_ANGLE, TREE_HEIGHT, TREE_WIDTH)
        noise(j) == RoundDiv((u(j) - 500) * 5, 1000)
    IN  [formed |-> << tPos[1] + noise(0), tPos[2] + noise(1), tPos[3] + noise(2) >>,
         chaos |-> getChaosPos(25, 500, u(3), u(4), u(5)),
         seed |-> u(6)]

FoliageData(seed, n) == [k \in 1..n |-> FoliageParticle(seed, k - 1, n)]

\* variant: the surface ornaments follow the same spiral as the foliage,
\* theta = i * GOLDEN_ANGLE
OrnamentEntrySameSpiral(seed, i, n, interior) ==
    LET u(j) == Random(seed, 101 + 7 * i + j)
        t == IF interior THEN u(0) ELSE ShellT(i, n)
        theta == IF interior THEN RoundDiv(u(1) * TwoPi, 1000)
                 ELSE i * GOLDEN_ANGLE
        rScale == IF interior THEN RoundDiv(SqrtMilli(u(2)) * 8, 10) ELSE 1000
    IN  [formed |-> getTreePos(t, theta, TREE_HEIGHT,
                               RoundDiv(TREE_WIDTH * 9 * rScale, 10000)),
         chaos |-> getChaosPos(20, 300, u(3), u(4), u(5)),
         seed |-> u(6)]

\* OrnamentLayer.useMemo: entry i of new Array(count).fill(0).map(...)
OrnamentEntry(seed, i, n, interior) ==
    LET u(j) == Random(seed, 101 + 7 * i + j)
        t == IF interior THEN u(0) ELSE ShellT(i, n)
        theta == IF interior THEN RoundDiv(u(1) * TwoPi, 1000)
                 ELSE i * GOLDEN_ANGLE * 13
        rScale == IF interior THEN RoundDiv(SqrtMilli(u(2)) * 8, 10) ELSE 1000
    IN  [formed |-> getTreePos(t, theta, TREE_HEIGHT,
                               RoundDiv(TREE_WIDTH * 9 * rScale, 10000)),
         chaos |-> getChaosPos(20, 300, u(3), u(4), u(5)),
         seed |-> u(6)]

OrnamentLayerData(seed, n, interior) ==
    [k \in 1..n |-> OrnamentEntry(seed, k - 1, n, interior)]

\* DynamicGifts.useMemo: entry i of n; the first half is the base pile
GiftEntry(seed, i, n) ==
    LET u(j) == Random(seed, 211 + 7 * i + j)
        isBase == 2 * i < n
        angle == RoundDiv(u(0) * TwoPi, 1000)
        baseR == RoundDiv(u(1) * 220, 1000) + 120
        baseY == RoundDiv(u(2) * 80, 1000) - TREE_HEIGHT \div 2 - 20
        t == RoundDiv(u(0) * 75, 100)
        maxR == RoundDiv(RoundDiv(TREE_WIDTH * 85, 100) * (1000 - t), 1000)
        r == RoundDiv(SqrtMilli(u(1)) * maxR, 1000)
        theta == RoundDiv(u(2) * TwoPi, 1000)
    IN  [formed |-> IF isBase
                    THEN << RoundDiv(CosAny(angle) * baseR, 1000), baseY,
                            RoundDiv(SinAny(angle) * baseR, 1000) >>
                    ELSE << RoundDiv(r * CosAny(theta), 1000),
                            RoundDiv(TREE_HEIGHT * t, 1000) - TREE_HEIGHT \div 2,
                            RoundDiv(r * SinAny(theta), 1000) >>,
         chaos |-> getChaosPos(25, 200, u(3), u(4), u(5)),
         seed |-> u(6)]

GiftData(seed, n) == [k \in 1..n |-> GiftEntry(seed, k - 1, n)]

\* Polaroids.useMemo: entry i of n, with its tilt in thousandths of a radian
PolaroidEntry(seed, i, n) ==
    LET u(j) == Random(seed, 307 + 7 * i + j)
    IN  [formed |-> getTreePos(ShellT(i, n), i * GOLDEN_ANGLE, TREE_HEIGHT,
                               RoundDiv(TREE_WIDTH * 11, 10)),
         chaos |-> getChaosPos(12, 0, u(0), u(1), u(2)),
         tilt |-> [x |-> RoundDiv((u(3) - 500) * 500, 1000),
                   z |-> RoundDiv((u(4) - 500) * 500, 1000)]]

\* the first m of the n panels
PolaroidData(seed, m, n) == [k \in 1..m |-> PolaroidEntry(seed, k - 1, n)]

\* the number of glyphs of a text
TextGlyphs(text) ==
    CASE text = "" -> 0
      [] text = "MERRY" -> 5
      [] OTHER -> 9

\* the vector of a sample taken from a geometry without faces
NaNVector == << "NaN", "NaN", "NaN" >>

\* sampler.sample(tempPos) on the centred text geometry.  The glyph outlines
\* are not modelled: the surface is a horizontal segment as wide as the
\* text, and the draw u picks the point.
SamplePoint(text, size, u) ==
    << RoundDiv((u - 500) * TextGlyphs(text) * size, 1000), 0, 0 >>

\* new Vector3(r - 0.5, r - 0.5, r - 0.5).normalize().multiplyScalar(r * 20 + 8)
Scatter(u1, u2, u3, u4) ==
    LET v == << u1 - 500, u2 - 500, u3 - 500 >>
        len == SqrtBetween(v[1] * v[1] + v[2] * v[2] + v[3] * v[3], 0, 1024)
        m == 2 * u4 + 800
    IN  [k \in 1..3 |-> IF len = 0 THEN 0 ELSE RoundDiv(v[k] * m, len)]

\* ParticleText.useMemo, the body of the loop for particle i
TextParticle(seed, i, text, size) ==
    LET u(j) == Random(seed, 401 + 7 * i + j)
        tempPos == SamplePoint(text, size, u(0))
        scatter == Scatter(u(1), u(2), u(3), u(4))
    IN  IF text = ""
        THEN [formed |-> NaNVector, chaos |-> NaNVector, seed |-> u(5)]
        ELSE [formed |-> tempPos,
              chaos |-> [k \in 1..3 |-> tempPos[k] + scatter[k]],
              seed |-> u(5)]

\* what MeshSurfaceSampler does with a geometry that has no face is the
\* library's business: it throws, or its samples are NaN
EmptyGeometryOutcomes == { "throws", "nan" }

\* ParticleText.useMemo: count = density, whatever the text
ParticleTextData(seed, text, size, density, outcome) ==
    IF text = "" /\ density > 0 /\ outcome = "throws"
    THEN [status |-> "failed", items |-> << >>]
    ELSE [status |-> "ok",
          items |-> [k \in 1..density |-> TextParticle(seed, k - 1, text, size)]]

(***************************************************************************)
(* The scene: LuxuryTree's children on a rendered frame.                   *)
(***************************************************************************)
RandomSeeds == { 1, 2 }
Viewports == { << 16, 9 >>, << 12, 9 >>, << 9, 16 >> }
GroupNames == { "foliage", "ornaments", "interior", "gifts", "polaroids", "text" }
InstanceKinds == { "ornaments", "interior", "gifts", "polaroids" }

\* const isMobile = viewport.width < viewport.height
IsMobile(vp) == vp[1] < vp[2]

\* size={isMobile ? 0.6 : 1.2}
TextSize(mobile) == IF mobile THEN 60 ELSE 120

\* density={isMobile ? 2000 : 4000}, in units of 2000 / GroupSize particles
TextDensity(mobile) == IF mobile THEN GroupSize ELSE 2 * GroupSize

\* variant: the text particles are generated on every render
TextGroupAlwaysNew(old, wasMobile, mobile, seed) ==
    ParticleTextData(seed, "MERRY", TextSize(mobile), TextDensity(mobile),
                     "nan").items

\* useMemo(..., [font, text, size, density]) of <ParticleText text="MERRY">:
\* the arrays are generated again when size or density changed
TextGroupAfterRender(old, wasMobile, mobile, seed) ==
    IF TextSize(wasMobile) = TextSize(mobile)
       /\ TextDensity(wasMobile) = TextDensity(mobile)
    THEN old
    ELSE ParticleTextData(seed, "MERRY", TextSize(mobile), TextDensity(mobile),
                          "nan").items

\* the groups as the first render generates them
InitialGroups(seed, vp) ==
    [g \in GroupNames |->
        CASE g = "foliage" -> FoliageData(seed, GroupSize)
          [] g = "ornaments" -> OrnamentLayerData(seed, GroupSize, FALSE)
          [] g = "interior" -> OrnamentLayerData(seed, GroupSize, TRUE)
          [] g = "gifts" -> GiftData(seed, GroupSize)
          [] g = "polaroids" -> PolaroidData(seed, GroupSize, count)
          [] OTHER -> ParticleTextData(seed, "MERRY", TextSize(IsMobile(vp)),
                                       TextDensity(IsMobile(vp)), "nan").items]

\* const currentPos = useRef(target.clone()) of every instance of a group
InitialPos(items) == [k \in DOMAIN items |-> items[k].formed]

\* the window is resized or the device turned: LuxuryTree renders again
ViewportChange ==
    \E vp \in Viewports \ { viewport }, seed \in RandomSeeds :
        /\ sceneSteps < MaxSceneSteps
        /\ sceneSteps' = sceneSteps + 1
        /\ viewport' = vp
        /\ groups' = [groups EXCEPT !["text"] =
                         TextGroupAfterRender(@, IsMobile(viewport),
                                              IsMobile(vp), seed)]
        /\ lastOp' = "viewportChange"
        /\ UNCHANGED << signalVars, visionVars, morphVars, cameraVars,
                        orbitEnabled, photoVars, classifierVars, generatorVars, chaosVars, uploadVars,
                        instancePos, polaroidRot, starPos, starScale,
                        frameProgress, frameDelta >>

\* variant: the destination is the blend of the two poses by the progress
InstanceDestBlended(progress, data) ==
    Vector3Lerp(data.formed, data.chaos, progress, ProgressOne)

\* const dest = progress > 0.5 ? chaos : target
InstanceDest(progress, data) ==
    IF 2 * progress > ProgressOne THEN data.chaos ELSE data.formed

\* currentPos.current.lerp(dest, delta * rate): rate 2.5 for a gift box,
\* 3 for an ornament instance, 2 for a photo panel
InstanceStep(kind, pos, dest, dNum, dDen) ==
    CASE kind = "gifts" -> Vector3Lerp(pos, dest, dNum * 5, dDen * 2)
      [] kind = "polaroids" -> Vector3Lerp(pos, dest, dNum * 2, dDen)
      [] OTHER -> Vector3Lerp(pos, dest, dNum * 3, dDen)

\* Math.atan2(y, x) in thousandths of a radian; the arc tangent of a ratio
\* q in [0, 1] is taken as q * pi/4 + 0.273 * q * (1 - q)
AtanUnit(n, d) ==
    LET q == RoundDiv(1000 * n, d)
    IN  RoundDiv(q * 785, 1000) + RoundDiv(273 * q * (1000 - q), 1000000)

MathAtan2(y, x) ==
    IF x = 0 /\ y = 0 THEN 0
    ELSE LET a == IF Abs(y) <= Abs(x) THEN AtanUnit(Abs(y), Abs(x))
                  ELSE TwoPi \div 4 - AtanUnit(Abs(x), Abs(y))
             b == IF x < 0 THEN TwoPi \div 2 - a ELSE a
         IN  IF y < 0 THEN -b ELSE b

\* variant: the panel turns to the camera as soon as progress passes 0.2
PolaroidRotationEarly(progress, pos, cam, tilt) ==
    IF 5 * progress > ProgressOne
    THEN [policy |-> "faceCamera", lookAt |-> cam, tilt |-> tilt]
    ELSE [policy |-> "upright", yaw |-> MathAtan2(pos[1], pos[3])]

\* SinglePolaroid.useFrame, the rotation: lookAt(camera.position) then
\* rotateX(tilt.x), rotateZ(tilt.z); or rotation.set(0, atan2(x, z), 0)
PolaroidRotation(progress, pos, cam, tilt) ==
    IF 2 * progress > ProgressOne
    THEN [policy |-> "faceCamera", lookAt |-> cam, tilt |-> tilt]
    ELSE [policy |-> "upright", yaw |-> MathAtan2(pos[1], pos[3])]

\* <group ref={ref} position={[0, TREE_HEIGHT / 2 + 0.3, 0]}>
StarPosition == << 0, TREE_HEIGHT \div 2 + 30, 0 >>

\* HolyStar.useFrame: targetScale = 1 + progress * 0.5, in thousandths
StarTargetScale(progress) == 1000 + RoundDiv(progress * 500, ProgressOne)

\* newScale = lerp(currentScale, targetScale, delta * 3)
StarScaleStep(scale, progress, dNum, dDen) ==
    MathUtilsLerp(scale, StarTargetScale(progress), dNum * 3, dDen)

\* one rendered frame: the useFrame callbacks of the instances and of the
\* star, which subscribed first, then LuxuryTree's, all with the same delta
SceneFrame ==
    \E delta \in DeltaSet :
        /\ sceneSteps < MaxSceneSteps
        /\ sceneSteps' = sceneSteps + 1
        /\ frameProgress' = progressRef
        /\ frameDelta' = delta
        /\ instancePos' =
               [kind \in InstanceKinds |->
                   [k \in DOMAIN instancePos[kind] |->
                       InstanceStep(kind, instancePos[kind][k],
                                    InstanceDest(progressRef, groups[kind][k]),
                                    delta, DeltaDen)]]
        /\ polaroidRot' =
               [k \in DOMAIN polaroidRot |->
                   PolaroidRotation(progressRef, instancePos'["polaroids"][k],
                                    cameraPosition, groups["polaroids"][k].tilt)]
        /\ starScale' = StarScaleStep(starScale, progressRef, delta, DeltaDen)
        /\ starPos' = starPos
        /\ target' = TargetOf(isHandOpen)
        /\ progressRef' = ProgressStep(progressRef, target', delta, DeltaDen)
        /\ lastOp' = "sceneFrame"
        /\ UNCHANGED << signalVars, visionVars, cameraVars, orbitEnabled,
                        photoVars, classifierVars, generatorVars, chaosVars, uploadVars,
                        fineProgress, holdTicks, viewport, groups >>

(***************************************************************************)
(* A particle group built from given props.                                *)
(***************************************************************************)
NotBuilt == [status |-> "none", items |-> << >>]

GeneratorProps ==
    [kind : { "foliage", "ornament", "text" }, count : 0..(GroupSize + 1),
     interior : BOOLEAN, text : { "", "MERRY" }, seed : RandomSeeds]

\* <Foliage count>, <OrnamentLayer count interior> or
\* <ParticleText text density> is rendered for the first time
ConstructGroup ==
    /\ built.status = "none"
    /\ \E outcome \in EmptyGeometryOutcomes :
           built' = IF props.kind = "ornament"
                    THEN [status |-> "ok",
                          items |-> OrnamentLayerData(props.seed, props.count,
                                                      props.interior)]
                    ELSE IF props.kind = "foliage"
                    THEN [status |-> "ok",
                          items |-> FoliageData(props.seed, props.count)]
                    ELSE ParticleTextData(props.seed, props.text,
                                          TextSize(FALSE), props.count, outcome)
    /\ builtPos' = IF props.kind = "ornament" THEN InitialPos(built'.items)
                   ELSE << >>
    /\ lastOp' = "construct"
    /\ UNCHANGED << signalVars, visionVars, morphVars, cameraVars, orbitEnabled,
                    photoVars, classifierVars, chaosVars, uploadVars, sceneVars, props >>

\* a frame on the built group: one OrnamentInstance callback per entry; the
\* foliage's and the text group's callbacks write uniforms and no particle
GroupFrame ==
    \E delta \in DeltaSet :
        /\ built.status = "ok"
        /\ builtPos' =
               [k \in DOMAIN builtPos |->
                   InstanceStep("ornaments", builtPos[k],
                                InstanceDest(progressRef, built.items[k]),
                                delta, DeltaDen)]
        /\ frameDelta' = delta
        /\ lastOp' = "groupFrame"
        /\ UNCHANGED << signalVars, visionVars, morphVars, cameraVars,
                        orbitEnabled, photoVars, classifierVars, chaosVars, uploadVars, props, built,
                        viewport, groups, instancePos, polaroidRot, starPos,
                        starScale, sceneSteps, frameProgress >>

(***************************************************************************)
(* App: the upload button, the privacy modal, the hidden file input and    *)
(* handleFileUpload.  A batch in flight is a record: its files, where it   *)
(* stands ("timer": the 100 ms timeout is pending, "loading": the images   *)
(* are being compressed) and the value each compressImage promise resolved *)
(* with ("pending" until it does).                                         *)
(***************************************************************************)
\* the files a user can select; the third is not an image the browser can
\* decode
UploadFiles ==
    { [name |-> "fileA", loads |-> TRUE], [name |-> "fileB", loads |-> TRUE],
      [name |-> "fileC", loads |-> FALSE] }

\* canvas.toDataURL('image/jpeg', 0.6) of the file's image drawn on the canvas
toDataURL(file) == IF file.name = "fileA" THEN "photoA" ELSE "photoB"

\* what the promise of compressImage(file) resolves with: img.onload gives
\* the data URL, img.onerror gives ""
compressImage(file) == IF file.loads THEN toDataURL(file) ELSE ""

\* variant: every resolved value is kept
validPhotosUnfiltered(compressedPhotos) == compressedPhotos

\* compressedPhotos.filter(p => p.length > 0)
validPhotos(compressedPhotos) ==
    LET NonEmpty(photo) == photo # ""
    IN  SelectSeq(compressedPhotos, NonEmpty)

\* variant: the button stays usable while a batch is processed
UploadButtonAlways(processing) == TRUE

\* <button disabled={isProcessing} onClick={() => !isProcessing && ...}>
UploadButtonEnabled(processing) == ~processing

\* the selections of a file dialog: event.target.files with length > 0
UploadSelections == SeqsUpTo(UploadFiles, MaxBatch) \ { << >> }

\* the upload button is clicked: the privacy modal opens.  The modal covers
\* the page and the file dialog blocks it, so the button can be clicked
\* when neither is open.
ClickUpload ==
    /\ UploadButtonEnabled(isProcessing)
    /\ ~showPrivacyModal
    /\ ~pickerOpen
    /\ showPrivacyModal' = TRUE
    /\ lastOp' = "clickUpload"
    /\ UNCHANGED << signalVars, visionVars, morphVars, cameraVars, orbitEnabled,
                    photoVars, classifierVars, sceneVars, generatorVars,
                    chaosVars, lastFiles, isProcessing, pickerOpen, uploads >>

\* CANCEL in the modal
CancelModal ==
    /\ showPrivacyModal
    /\ showPrivacyModal' = FALSE
    /\ lastOp' = "cancelModal"
    /\ UNCHANGED << signalVars, visionVars, morphVars, cameraVars, orbitEnabled,
                    photoVars, classifierVars, sceneVars, generatorVars,
                    chaosVars, lastFiles, isProcessing, pickerOpen, uploads >>

\* onConfirmUpload: the modal closes and fileInputRef.current.click() opens
\* the file dialog
ConfirmUpload ==
    /\ showPrivacyModal
    /\ showPrivacyModal' = FALSE
    /\ pickerOpen' = TRUE
    /\ lastOp' = "confirmUpload"
    /\ UNCHANGED << signalVars, visionVars, morphVars, cameraVars, orbitEnabled,
                    photoVars, classifierVars, sceneVars, generatorVars,
                    chaosVars, lastFiles, isProcessing, uploads >>

\* the file dialog is dismissed: no change event
PickerCancelled ==
    /\ pickerOpen
    /\ pickerOpen' = FALSE
    /\ lastOp' = "pickerCancelled"
    /\ UNCHANGED << signalVars, visionVars, morphVars, cameraVars, orbitEnabled,
                    photoVars, classifierVars, sceneVars, generatorVars,
                    chaosVars, lastFiles, isProcessing, showPrivacyModal,
                    uploads >>

\* handleFileUpload on the change event: setIsProcessing(true) and the
\* timeout is set
FilesChosen ==
    \E files \in UploadSelections :
        /\ pickerOpen
        /\ Len(userPhotos) + Len(files) <= MaxPhotos
        /\ pickerOpen' = FALSE
        /\ isProcessing' = TRUE
        /\ uploads' = Append(uploads,
                             [files |-> files, pc |-> "timer",
                              results |-> [k \in 1..Len(files) |-> "pending"]])
        /\ lastOp' = "filesChosen"
        /\ UNCHANGED << signalVars, visionVars, morphVars, cameraVars,
                        orbitEnabled, photoVars, classifierVars, sceneVars,
                        generatorVars, chaosVars, showPrivacyModal,
                        lastFiles >>

\* a sequence without its entry b
WithoutBatch(list, b) ==
    [k \in 1..(Len(list) - 1) |-> IF k < b THEN list[k] ELSE list[k + 1]]

\* the timeout fires: fileList.map(compressImage) starts one load per file
\* and Promise.all awaits them
TimeoutFires ==
    \E b \in DOMAIN uploads :
        /\ uploads[b].pc = "timer"
        /\ uploads' = [uploads EXCEPT ![b].pc = "loading"]
        /\ lastOp' = "timeoutFires"
        /\ UNCHANGED << signalVars, visionVars, morphVars, cameraVars,
                        orbitEnabled, photoVars, classifierVars, sceneVars,
                        generatorVars, chaosVars, isProcessing,
                        showPrivacyModal, pickerOpen, lastFiles >>

\* img.onload or img.onerror of one file: its promise resolves
ImageSettles ==
    \E b \in DOMAIN uploads :
        \E k \in DOMAIN uploads[b].files :
            /\ uploads[b].pc = "loading"
            /\ uploads[b].results[k] = "pending"
            /\ uploads' = [uploads EXCEPT
                               ![b].results[k] = compressImage(uploads[b].files[k])]
            /\ lastOp' = "imageSettles"
            /\ UNCHANGED << signalVars, visionVars, morphVars, cameraVars,
                        orbitEnabled, photoVars, classifierVars, sceneVars,
                        generatorVars, chaosVars, isProcessing,
                        showPrivacyModal, pickerOpen, lastFiles >>

\* Promise.all resolves: addUserPhotos(validPhotos), the photo panels are
\* rendered again, and finally setIsProcessing(false)
BatchDone ==
    \E b \in DOMAIN uploads :
        /\ uploads[b].pc = "loading"
        /\ \A k \in DOMAIN uploads[b].results : uploads[b].results[k] # "pending"
        /\ userPhotos' = addUserPhotosList(userPhotos,
                                           validPhotos(uploads[b].results))
        /\ RenderPolaroids(userPhotos')
        /\ lastBatch' = validPhotos(uploads[b].results)
        /\ isProcessing' = FALSE
        /\ uploads' = WithoutBatch(uploads, b)
        /\ lastFiles' = uploads[b].files
        /\ lastOp' = "batchDone"
        /\ UNCHANGED << signalVars, visionVars, morphVars, cameraVars,
                        orbitEnabled, classifierVars, generatorVars, chaosVars,
                        viewport, groups, starPos, starScale, sceneSteps,
                        frameProgress, frameDelta, showPrivacyModal, pickerOpen >>

\* the try block throws while the batch is processed: catch logs the error,
\* finally setIsProcessing(false); nothing reaches the store
BatchThrows ==
    \E b \in DOMAIN uploads :
        /\ uploads[b].pc = "loading"
        /\ isProcessing' = FALSE
        /\ uploads' = WithoutBatch(uploads, b)
        /\ lastFiles' = uploads[b].files
        /\ lastOp' = "batchThrows"
        /\ UNCHANGED << signalVars, visionVars, morphVars, cameraVars,
                        orbitEnabled, photoVars, classifierVars, sceneVars,
                        generatorVars, chaosVars, showPrivacyModal,
                        pickerOpen >>

(***************************************************************************)
(* getChaosPos applied to given arguments and Math.random() values.        *)
(***************************************************************************)
\* the scales and minimum-radius ratios of the call sites, and the ends of
\* the ratio's range
ChaosScales == { 20, 25 }
ChaosRatios == { 0, 200, 300, 500, 1000 }

\* values of Math.random(), in [0, 1)
ChaosDraws == { 0, 1, 250, 500, 750, 999 }

\* one call of getChaosPos(scale, minRatio)
ApplyChaos ==
    /\ chaosPos = << >>
    /\ chaosPos' = getChaosPos(chaosArgs.scale, chaosArgs.minRatio,
                               chaosArgs.u1, chaosArgs.u2, chaosArgs.u3)
    /\ lastOp' = "getChaosPos"
    /\ UNCHANGED << signalVars, visionVars, morphVars, cameraVars, orbitEnabled,
                    photoVars, classifierVars, sceneVars, generatorVars,
                    chaosArgs, uploadVars >>

(***************************************************************************)
(* Initial state: the store as created, components mounted and rendered.   *)
(***************************************************************************)
NoSample == [i \in LandmarkIndex |-> Pt(0, 0)]

InitStore ==
    /\ handX = NeutralHand
    /\ handY = NeutralHand
    /\ handZ = NeutralHand
    /\ isTracking = FALSE
    /\ isHandOpen = FALSE
    /\ userPhotos = << >>

InitScene ==
    /\ status = "INITIALIZING"
    /\ visionPc = "init"
    /\ videoStarted = FALSE
    /\ mounted = TRUE
    /\ streamLive = "none"
    /\ cycleWrites = 0
    /\ cycleResult = "none"
    /\ cycleSignal = [x |-> NeutralHand, y |-> NeutralHand, z |-> NeutralHand,
                      tracking |-> FALSE, open |-> FALSE]
    /\ progressRef = 0
    /\ target = 0
    /\ fineProgress = 0
    /\ holdTicks = 0
    /\ currentPos = DefaultPose
    /\ targetPos = DefaultPose
    /\ cameraPosition = DefaultPose
    /\ trackedFrames = 0
    /\ orbitEnabled = OrbitControlsEnabled(FALSE)
    /\ photoUrl = [i \in Slots |-> PhotoUrlOf(i, << >>)]
    /\ slotView = [i \in Slots |-> SlotViewOf(PhotoUrlOf(i, << >>))]
    /\ lastBatch = << >>
    /\ lastOp = "init"

\* LuxuryTree's children as first rendered, Math.random() drawing the values
\* of the given page load
InitParticles(seed, vp) ==
    /\ viewport = vp
    /\ groups = InitialGroups(seed, vp)
    /\ instancePos = [kind \in InstanceKinds |-> InitialPos(groups[kind])]
    /\ polaroidRot = [k \in 1..GroupSize |-> NoRotation]
    /\ starPos = StarPosition
    /\ starScale = 1000
    /\ sceneSteps = 0
    /\ frameProgress = 0
    /\ frameDelta = 0

InitGenerator ==
    /\ props = [kind |-> "ornament", count |-> GroupSize, interior |-> FALSE,
                text |-> "", seed |-> 1]
    /\ built = NotBuilt
    /\ builtPos = << >>

InitChaos ==
    /\ chaosArgs = [scale |-> 10, minRatio |-> 0, u1 |-> 0, u2 |-> 0, u3 |-> 0]
    /\ chaosPos = << >>

\* App as first rendered: useState(false) twice, no file dialog, no batch
InitUpload ==
    /\ isProcessing = FALSE
    /\ showPrivacyModal = FALSE
    /\ pickerOpen = FALSE
    /\ uploads = << >>
    /\ lastFiles = << >>

\* the specifications that do not read the particle groups follow one page
\* load on a wide viewport
Init ==
    /\ InitStore
    /\ InitScene
    /\ InitParticles(1, << 16, 9 >>)
    /\ InitGenerator
    /\ InitChaos
    /\ InitUpload
    /\ sample = NoSample
    /\ classified = "none"

Next ==
    \/ SetupVision
    \/ ModelLoaded
    \/ ModelFailed
    \/ WebcamGranted
    \/ WebcamDenied
    \/ VideoPlays
    \/ Unmount
    \/ LoadedData(MorphResults)
    \/ Detect(MorphResults)
    \/ LuxuryTreeFrame

Spec == Init /\ [][Next]_vars

\* the store, the detection loop and the photo panels
NextPhotos ==
    \/ SetupVision
    \/ ModelLoaded
    \/ ModelFailed
    \/ WebcamGranted
    \/ WebcamDenied
    \/ VideoPlays
    \/ Unmount
    \/ LoadedData(MorphResults)
    \/ Detect(MorphResults)
    \/ AddUserPhotos

SpecPhotos == Init /\ [][NextPhotos]_vars

\* the store, the detection loop, the camera rig and the orbit controls
NextCamera ==
    \/ SetupVision
    \/ ModelLoaded
    \/ ModelFailed
    \/ WebcamGranted
    \/ WebcamDenied
    \/ VideoPlays
    \/ Unmount
    \/ LoadedData(CameraResults)
    \/ Detect(CameraResults)
    \/ GestureControllerFrame
    \/ OrbitMove

SpecCamera == Init /\ [][NextCamera]_vars

\* isHandOpen on every sample of ClassifierHands
InitClassifier ==
    /\ InitStore
    /\ InitScene
    /\ InitParticles(1, << 16, 9 >>)
    /\ InitGenerator
    /\ InitChaos
    /\ InitUpload
    /\ sample \in ClassifierHands
    /\ classified = "none"

NextClassifier == Classify

SpecClassifier == InitClassifier /\ [][NextClassifier]_vars

\* the zoom mapping on every hand size of ZoomHands: the state after a
\* detection cycle wrote the signal of one of these hands
ZoomHands ==
    { MkHand(cx, 30, size, 3) : cx \in {20, 50, 100}, size \in 0..MaxHandZ }

\* the state after the first detection cycle wrote the signal of a hand, for
\* the page loads of seeds
InitAfterDetectOf(hands, seeds) ==
    \E hand \in hands, seed \in seeds :
        LET sig == HandSignal(hand)
        IN  /\ InitParticles(seed, << 16, 9 >>)
            /\ InitGenerator
            /\ InitChaos
            /\ InitUpload
            /\ handX = sig.x
            /\ handY = sig.y
            /\ handZ = sig.z
            /\ isTracking = sig.tracking
            /\ isHandOpen = sig.open
            /\ userPhotos = << >>
            /\ status = "READY"
            /\ visionPc = "detecting"
            /\ videoStarted = TRUE
            /\ mounted = TRUE
            /\ streamLive = "live"
            /\ cycleWrites = 1
            /\ cycleResult = "hand"
            /\ cycleSignal = sig
            /\ progressRef = 0
            /\ target = 0
            /\ fineProgress = 0
            /\ holdTicks = 0
            /\ currentPos = DefaultPose
            /\ targetPos = DefaultPose
            /\ cameraPosition = DefaultPose
            /\ trackedFrames = 0
            /\ orbitEnabled = OrbitControlsEnabled(sig.tracking)
            /\ photoUrl = [i \in Slots |-> PhotoUrlOf(i, << >>)]
            /\ slotView = [i \in Slots |-> SlotViewOf(PhotoUrlOf(i, << >>))]
            /\ lastBatch = << >>
            /\ sample = NoSample
            /\ classified = "none"
            /\ lastOp = "detect"

InitAfterDetect(hands) == InitAfterDetectOf(hands, { 1 })

InitZoom == InitAfterDetect(ZoomHands)

NextZoom == GestureControllerFrame

SpecZoom == InitZoom /\ [][NextZoom]_vars

\* the gesture held open from progress 0: an open hand is in the store and
\* no frame has run yet
InitHold == InitAfterDetect({ MkHand(50, 50, 20, 3) })

NextHold == HoldFrame

SpecHold == InitHold /\ [][NextHold]_vars

\* the scene: the detection loop, the rendered frames, photo uploads and
\* viewport changes, for every page load of RandomSeeds, from the first
\* detection cycle on
SceneHands == { MkHand(50, 50, 20, 3) }
SceneResults == ResultsOf(SceneHands)

InitSceneSpec == InitAfterDetectOf(SceneHands, RandomSeeds)

NextScene ==
    \/ Detect(SceneResults)
    \/ SceneFrame
    \/ AddUserPhotos
    \/ ViewportChange

SpecScene == InitSceneSpec /\ [][NextScene]_vars

\* a group built from every props of GeneratorProps, then rendered frames
InitGeneratorSpec ==
    /\ InitStore
    /\ InitScene
    /\ InitParticles(1, << 16, 9 >>)
    /\ props \in GeneratorProps
    /\ built = NotBuilt
    /\ builtPos = << >>
    /\ InitChaos
    /\ InitUpload
    /\ sample = NoSample
    /\ classified = "none"

NextGenerator ==
    \/ ConstructGroup
    \/ GroupFrame

SpecGenerator == InitGeneratorSpec /\ [][NextGenerator]_vars

\* the store and the upload flow
NextUpload ==
    \/ ClickUpload
    \/ CancelModal
    \/ ConfirmUpload
    \/ PickerCancelled
    \/ FilesChosen
    \/ TimeoutFires
    \/ ImageSettles
    \/ BatchDone
    \/ BatchThrows

SpecUpload == Init /\ [][NextUpload]_vars

\* timers fire, image loads end in onload or onerror, and a settled
\* Promise.all runs its continuation
UploadFairness ==
    /\ WF_vars(TimeoutFires)
    /\ WF_vars(ImageSettles)
    /\ WF_vars(BatchDone \/ BatchThrows)

SpecUploadLive == SpecUpload /\ UploadFairness

\* getChaosPos for every argument and draw of the sets above
InitChaosSpec ==
    /\ InitStore
    /\ InitScene
    /\ InitParticles(1, << 16, 9 >>)
    /\ InitGenerator
    /\ InitUpload
    /\ chaosArgs \in [scale : ChaosScales, minRatio : ChaosRatios,
                       u1 : ChaosDraws, u2 : ChaosDraws, u3 : ChaosDraws]
    /\ chaosPos = << >>
    /\ sample = NoSample
    /\ classified = "none"

NextChaos == ApplyChaos

SpecChaos == InitChaosSpec /\ [][NextChaos]_vars

(***************************************************************************)
(* Properties.                                                             *)
(***************************************************************************)
StoreSignal ==
    [x |-> handX, y |-> handY, z |-> handZ, tracking |-> isTracking,
     open |-> isHandOpen]

Between(v, a, b) == (a <= v /\ v <= b) \/ (b <= v /\ v <= a)

\* C1: in every reachable state the morph progress satisfies
\* 0 <= progress <= 1, for any frame deltas and gesture flips.
ProgressBounds == 0 <= progressRef /\ progressRef <= ProgressOne

\* C2: every frame tick moves progress to a value between its previous
\* value and the target of that tick, never past the target.
ProgressMovesTowardTarget ==
    [][lastOp' = "treeFrame" => Between(progressRef', progressRef, target')]_vars

\* C3 (as stated): while tracked = false, a camera-rig tick leaves the camera
\* position and currentPos unchanged.
UntrackedFrameKeepsCurrentPos ==
    [][(~isTracking /\ lastOp' = "cameraFrame")
        => (cameraPosition' = cameraPosition /\ currentPos' = currentPos)]_vars

\* C3 (amended): while tracked = false, a camera-rig tick leaves the camera
\* position and targetPos unchanged and sets currentPos to the camera's live
\* position; currentPos changes only if the orbit controls moved the camera,
\* and is never pulled toward the default pose or targetPos.
UntrackedFrameSyncsToCamera ==
    [][(~isTracking /\ lastOp' = "cameraFrame")
        => /\ cameraPosition' = cameraPosition
           /\ targetPos' = targetPos
           /\ currentPos' = cameraPosition
           /\ (currentPos = cameraPosition => currentPos' = currentPos)]_vars

\* C3 witness: tracking moved the rig, tracking was lost, the orbit controls
\* moved the camera and an untracked tick ran.
UntrackedFrameWitness ==
    /\ lastOp = "cameraFrame"
    /\ ~isTracking
    /\ trackedFrames > 0
    /\ cameraPosition \in OrbitPoses
    /\ currentPos = cameraPosition
    /\ currentPos # targetPos
    /\ targetPos # DefaultPose

\* C4 (as stated): every detection cycle writes exactly one gesture signal
\* to the store.
EveryCycleWritesOnce == lastOp = "detect" => cycleWrites = 1

\* C4 (amended): a detection cycle run while video.currentTime > 0 writes
\* exactly one signal, a tracked sample or the untracked signal; a cycle run
\* before the video has started writes none.
CycleWritesOnceVideoStarted ==
    lastOp = "detect" =>
        /\ cycleWrites = (IF videoStarted THEN 1 ELSE 0)
        /\ videoStarted => (isTracking \/ StoreSignal = NoHandSignal)
        /\ ~videoStarted => cycleResult = "skipped"

\* C4 witness: a cycle with the video started found no hand and wrote.
CycleWritesWitness ==
    /\ lastOp = "detect"
    /\ videoStarted
    /\ cycleResult = "noHand"
    /\ cycleWrites = 1

\* C5: after a detection cycle that finds no hand, the store holds exactly
\* tracked = false, open = false and position (0.5, 0.5, 0.5).
NoHandWritesNeutral ==
    (lastOp = "detect" /\ cycleResult = "noHand") =>
        /\ handX = 50 /\ handY = 50 /\ handZ = 50
        /\ isTracking = FALSE
        /\ isHandOpen = FALSE

\* C5 witness: no hand found after an open hand had driven the progress up.
NoHandWitness ==
    /\ lastOp = "detect"
    /\ cycleResult = "noHand"
    /\ progressRef > 0
    /\ target = ProgressOne

\* the fingers of a sample whose tip is strictly farther from the wrist
\* than its PIP, by squared distance
FingerPairs == { << 8, 6 >>, << 12, 10 >>, << 16, 14 >>, << 20, 18 >> }
Dist2(a, b) == (a.x - b.x) * (a.x - b.x) + (a.y - b.y) * (a.y - b.y)
ExtendedFingers(lm) ==
    { f \in FingerPairs : Dist2(lm[0], lm[f[1]]) > Dist2(lm[0], lm[f[2]]) }
TiedFingers(lm) ==
    { f \in FingerPairs : Dist2(lm[0], lm[f[1]]) = Dist2(lm[0], lm[f[2]]) }

\* C6: the classifier reports open exactly when at least 3 of the 4 fingers
\* are strictly extended; a tie counts as not extended.
OpenIffThreeExtended ==
    classified # "none" =>
        ((classified = "open") <=> (Cardinality(ExtendedFingers(sample)) >= 3))

\* C6 witness: a sample with two fingers extended and the other two tied is
\* classified closed.
TieWitness ==
    /\ classified = "closed"
    /\ Cardinality(ExtendedFingers(sample)) = 2
    /\ Cardinality(TiedFingers(sample)) = 2

\* C7: on every frame tick the morph target is 1 exactly when the signal in
\* the store has open = true and 0 otherwise.
TargetFollowsStore ==
    lastOp = "treeFrame" => target = (IF isHandOpen THEN ProgressOne ELSE 0)

\* C7 witness: the hand closed while progress was past the half; the tick's
\* target is 0 at once.
TargetWitness ==
    /\ lastOp = "treeFrame"
    /\ ~isHandOpen
    /\ target = 0
    /\ progressRef > ProgressOne \div 2

\* C8: the orbit controls are enabled exactly when tracked = false.
OrbitEnabledIffUntracked == orbitEnabled <=> ~isTracking

\* C8 witness: a tracked sample was written and the controls are disabled.
OrbitDisabledWitness ==
    /\ lastOp = "detect"
    /\ isTracking
    /\ ~orbitEnabled

\* C9: for a non-empty photo list of length L, slot i of the 48 is bound to
\* photos[i mod L].
SlotsCyclePhotos ==
    Len(userPhotos) > 0 =>
        \A i \in 0..47 : photoUrl[i] = userPhotos[(i % Len(userPhotos)) + 1]

\* C9 witness: two different photos, bound alternately.
TwoPhotosWitness ==
    /\ Len(userPhotos) = 2
    /\ userPhotos[1] # userPhotos[2]
    /\ photoUrl[46] = userPhotos[1]
    /\ photoUrl[47] = userPhotos[2]

\* C10: with an empty photo list every one of the 48 slots is bound to no
\* photo and shows the placeholder.
EmptyListPlaceholders ==
    Len(userPhotos) = 0 =>
        \A i \in 0..47 : photoUrl[i] = NoPhoto /\ slotView[i] = "placeholder"

\* C10 witness: an empty batch was appended to the empty list and the panels
\* were rendered again.
EmptyListWitness ==
    /\ lastOp = "addUserPhotos"
    /\ Len(userPhotos) = 0
    /\ slotView[0] = "placeholder"

\* C11: the photo list only grows: the list before a step is a prefix of the
\* list after it, and addUserPhotos puts the new handles at the end, in the
\* order given.
PhotoListOnlyGrows ==
    [][ /\ Len(userPhotos') >= Len(userPhotos)
        /\ SubSeq(userPhotos', 1, Len(userPhotos)) = userPhotos
        /\ (lastOp' = "addUserPhotos" =>
               /\ Len(userPhotos') = Len(userPhotos) + Len(lastBatch')
               /\ SubSeq(userPhotos', Len(userPhotos) + 1, Len(userPhotos'))
                      = lastBatch') ]_vars

\* C11 witness: a batch of two different handles was appended to a list that
\* already held a handle different from the batch's first.
PhotoAppendWitness ==
    /\ lastOp = "addUserPhotos"
    /\ Len(userPhotos) = 3
    /\ Len(lastBatch) = 2
    /\ lastBatch[1] # lastBatch[2]
    /\ userPhotos[1] # lastBatch[1]

\* C12: once VisionManager is torn down no step writes the gesture signal,
\* and a frame tick after the teardown still takes its target from the
\* signal written last.
NoWriteAfterTeardown ==
    [][ ~mounted =>
          /\ signalVars' = signalVars
          /\ (lastOp' = "treeFrame" => target' = TargetOf(isHandOpen)) ]_vars

\* C12 witness: the loop was torn down while an open hand was tracked, and a
\* frame tick ran afterwards toward the target 1.
TeardownWitness ==
    /\ ~mounted
    /\ visionPc = "cancelled"
    /\ lastOp = "treeFrame"
    /\ isTracking
    /\ isHandOpen
    /\ target = ProgressOne

\* C13: only a detection cycle changes the gesture signal, and the five
\* fields read from the store are always those of the one signal the last
\* writing cycle computed (or the initial one), never a mix of two.
SingleWriterCompleteSignal ==
    [][ /\ (signalVars' # signalVars => lastOp' = "detect")
        /\ StoreSignal' = cycleSignal' ]_vars

\* C13 witness: a no-hand cycle replaced a tracked open signal; all five
\* fields are the neutral ones.
SignalReplacedWitness ==
    /\ lastOp = "detect"
    /\ cycleResult = "noHand"
    /\ StoreSignal = NoHandSignal
    /\ target = ProgressOne

\* C16: a detection cycle that finds no hand sets no ERROR status and leaves
\* the loop running.
NoHandIsNoFailure ==
    [][ (lastOp' = "detect" /\ cycleResult' = "noHand") =>
          /\ status' = status
          /\ status' # "ERROR"
          /\ visionPc' = "detecting" ]_vars

\* C16 witness: a no-hand cycle ran, the status is READY and the loop is
\* still scheduled.
NoHandLoopWitness ==
    /\ lastOp = "detect"
    /\ cycleResult = "noHand"
    /\ status = "READY"
    /\ visionPc = "detecting"
    /\ mounted

\* the square of a position's horizontal distance from the vertical axis
HorizontalSq(pos) == pos[1] * pos[1] + pos[3] * pos[3]

\* C20: for every tracked signal, hand sizes outside [0.05, 0.35] included,
\* the camera target's horizontal distance from the axis lies inside the
\* configured range (to one tenth, the rounding of the fixed-point
\* coordinates) and no larger hand size gives a farther target.
ZoomInRangeAndMonotone ==
    (lastOp = "cameraFrame" /\ isTracking) =>
        /\ HorizontalSq(targetPos) >= (DistanceNear - 1) * (DistanceNear - 1)
        /\ HorizontalSq(targetPos) <= (DistanceFar + 1) * (DistanceFar + 1)
        /\ \A z2 \in handZ..MaxHandZ :
               HorizontalSq(TargetPosOf(handX, handY, z2))
                   <= HorizontalSq(targetPos)

\* C20 witness: a hand size above 0.35 and one below 0.05 were mapped; the
\* state holds the first, at the near end of the range.
ZoomOutsideWitness ==
    /\ lastOp = "cameraFrame"
    /\ isTracking
    /\ handZ > 35
    /\ handX # NeutralHand
    /\ HorizontalSq(targetPos) <= (DistanceNear + 1) * (DistanceNear + 1)

\* C15: from progress 0 with the gesture held open, after 180 ticks of
\* 1/60 s the progress is at least 0.997.
HeldOpenReachesChaos ==
    holdTicks >= HoldTicks => fineProgress * 1000 >= 997 * FineOne

\* C15 witness: the 180th tick has run with the open hand still in the
\* store, and the progress is short of 1.
HeldOpenWitness ==
    /\ holdTicks = HoldTicks
    /\ lastOp = "treeFrame"
    /\ isHandOpen
    /\ target = ProgressOne
    /\ fineProgress < FineOne

\* C14: every particle group's formed positions, chaos positions and seeds
\* are generated once and no frame tick, gesture update, photo addition or
\* viewport change changes or regenerates them.
GroupsGeneratedOnce == [][groups' = groups]_vars

\* C14, amended: no step changes the data of the foliage, ornament, gift and
\* photo-panel groups; the text group's data changes only when a viewport
\* change turns the viewport from wide to tall or back, and then it is
\* generated anew with the density of the new form.
GroupsChangeOnlyOnTurn ==
    [][ /\ \A g \in GroupNames \ { "text" } : groups'[g] = groups[g]
        /\ (groups'["text"] # groups["text"] =>
               /\ lastOp' = "viewportChange"
               /\ IsMobile(viewport') # IsMobile(viewport))
        /\ (IsMobile(viewport') # IsMobile(viewport) =>
               Len(groups'["text"]) # Len(groups["text"])) ]_vars

\* C14 witness: after a frame tick that moved the instances, the viewport
\* turned tall and the text group holds the tall form's particles.
TextRegeneratedWitness ==
    /\ lastOp = "viewportChange"
    /\ IsMobile(viewport)
    /\ Len(groups["text"]) = GroupSize
    /\ frameDelta > 0
    /\ isHandOpen

\* C17: a group built with N = 0, or a text group built from the empty
\* text, is built without failure and has no entry; frames leave it empty.
EmptyGroupNeverFails ==
    (built.status # "none"
     /\ (props.count = 0 \/ (props.kind = "text" /\ props.text = ""))) =>
        /\ built.status = "ok"
        /\ Len(built.items) = 0
        /\ Len(builtPos) = 0

PanelOrientationGated ==
    lastOp = "sceneFrame" =>
        \A k \in DOMAIN polaroidRot :
            IF 2 * frameProgress > ProgressOne
            THEN /\ polaroidRot[k].policy = "faceCamera"
                 /\ polaroidRot[k].lookAt = cameraPosition
                 /\ polaroidRot[k].tilt = groups["polaroids"][k].tilt
            ELSE /\ polaroidRot[k].policy = "upright"
                 /\ polaroidRot[k].yaw =
                        MathAtan2(instancePos["polaroids"][k][1],
                                  instancePos["polaroids"][k][3])

\* C19 witness: a frame read a progress above 0.5; the first panel has left
\* its formed position and faces the camera, tilted.
PanelFacesCameraWitness ==
    /\ lastOp = "sceneFrame"
    /\ 2 * frameProgress > ProgressOne
    /\ frameDelta > 0
    /\ polaroidRot[1].policy = "faceCamera"
    /\ polaroidRot[1].tilt.x # 0
    /\ instancePos["polaroids"][1] # groups["polaroids"][1].formed

\* C21: each tracked camera-rig tick, for any frame delta, moves currentPos
\* to a point on the segment between its previous value and the targetPos of
\* that tick: every coordinate lies between the two.
CameraStaysOnSegment ==
    [][(isTracking /\ lastOp' = "cameraFrame")
        => \A k \in 1..3 : Between(currentPos'[k], currentPos[k], targetPos'[k])]_vars

\* C22: a tracked camera-rig tick starts its interpolation from the camera's
\* live position: when the tick runs, currentPos is where the camera is, also
\* on the first tracked tick after an untracked interval in which the orbit
\* controls moved the camera (a tick that follows a tracked tick starts from
\* the position that tick gave the camera).
ResumeStartsFromLivePosition ==
    [][(isTracking /\ lastOp' = "cameraFrame") => currentPos = cameraPosition]_vars

\* the point of the cone shell for index i of n with angle stride * i * GOLDEN_ANGLE
ShellPoint(i, n, stride, width) ==
    getTreePos(1000 - SqrtMilli(RoundDiv((i + 1) * 1000, n + 1)),
               stride * i * GOLDEN_ANGLE, TREE_HEIGHT, width)

\* a foliage particle lies within its placement noise (0.025 a coordinate,
\* rounded to hundredths) of the point p
NearShellPoint(pos, p) == \A c \in 1..3 : Abs(pos[c] - p[c]) <= 3

BuiltShell(kind) ==
    /\ built.status = "ok"
    /\ props.kind = kind
    /\ (kind = "ornament" => ~props.interior)

\* C23 (as stated): particle i of a foliage group and of a surface ornament
\* group of N particles is placed at height fraction
\* t = 1 - sqrt((i+1)/(N+1)) and angle theta = i * goldenAngle.
ShellAngleIsGoldenSpiral ==
    /\ BuiltShell("foliage") =>
           \A k \in DOMAIN built.items :
               NearShellPoint(built.items[k].formed,
                              ShellPoint(k - 1, props.count, 1, TREE_WIDTH))
    /\ BuiltShell("ornament") =>
           \A k \in DOMAIN built.items :
               built.items[k].formed =
                   ShellPoint(k - 1, props.count, 1, (TREE_WIDTH * 9) \div 10)

\* C23 (amended): both groups use t = 1 - sqrt((i+1)/(N+1)); a foliage
\* particle has theta = i * goldenAngle, full tree width and a placement
\* noise of at most 0.025 a coordinate; a surface ornament has
\* theta = 13 * i * goldenAngle and 0.9 of the tree width, without noise.
ShellAngleFoliageOneOrnamentThirteen ==
    /\ BuiltShell("foliage") =>
           \A k \in DOMAIN built.items :
               NearShellPoint(built.items[k].formed,
                              ShellPoint(k - 1, props.count, 1, TREE_WIDTH))
    /\ BuiltShell("ornament") =>
           \A k \in DOMAIN built.items :
               built.items[k].formed =
                   ShellPoint(k - 1, props.count, 13, (TREE_WIDTH * 9) \div 10)

\* C23 witness: a surface ornament group of GroupSize + 1 entries has been
\* built and rendered, and its second entry is off the foliage's spiral.
ShellBuiltWitness ==
    /\ built.status = "ok"
    /\ props.kind = "ornament"
    /\ ~props.interior
    /\ props.count = GroupSize + 1
    /\ built.items[2].formed # ShellPoint(1, props.count, 1, (TREE_WIDTH * 9) \div 10)
    /\ lastOp = "groupFrame"

\* the distance from the origin, in hundredths (rounded down)
Radius(pos) == SqrtBetween(pos[1] * pos[1] + pos[2] * pos[2] + pos[3] * pos[3], 0, 4096)

\* C24: every position getChaosPos(S, m) returns lies at a distance r from
\* the origin with m * S <= r <= S, whatever the three random draws; a
\* gift box's chaos position (S = 25, m = 0.2) is at least 5 units away.
\* The three coordinates are each rounded to a hundredth, which moves the
\* distance by less than 0.02.
ChaosRadiusInShell ==
    chaosPos # << >> =>
        /\ Radius(chaosPos) + 2 >= (chaosArgs.minRatio * chaosArgs.scale) \div 10
        /\ Radius(chaosPos) - 2 <= chaosArgs.scale * 100
        /\ (chaosArgs.scale = 25 /\ chaosArgs.minRatio = 200)
               => Radius(chaosPos) + 2 >= 500

\* C24 witness: a gift box's call with the smallest third draw, which gives
\* the inner radius of the shell.
ChaosInnerWitness ==
    /\ chaosPos # << >>
    /\ chaosArgs.scale = 25
    /\ chaosArgs.minRatio = 200
    /\ chaosArgs.u3 = 0
    /\ Radius(chaosPos) <= 502

UntrackedIsNeutral ==
    ~isTracking =>
        /\ ~isHandOpen
        /\ handX = NeutralHand /\ handY = NeutralHand /\ handZ = NeutralHand

\* C25: in every reachable store state, tracked = false implies open = false
\* and the hand position (0.5, 0.5, 0.5); hence a frame tick that runs while
\* the hand is lost sets the morph target to 0, also when the hand was open
\* before it was lost.
UntrackedMeansClosedAndNeutral ==
    /\ UntrackedIsNeutral
    /\ [][/\ UntrackedIsNeutral'
          /\ (lastOp' = "treeFrame" /\ ~isTracking) => target' = 0]_vars

\* C25 witness: the hand was open (the target was 1 and progress rose), the
\* hand was lost, and a frame tick ran.
HandLostWhileOpenWitness ==
    /\ lastOp = "treeFrame"
    /\ ~isTracking
    /\ cycleResult = "noHand"
    /\ target = 0
    /\ progressRef > 0

\* C26: setHandPosition leaves the photo list unchanged and addUserPhotos
\* leaves the five gesture fields unchanged; what each writes is a function
\* of its argument and of the part it writes alone (the signal of the cycle,
\* the old list followed by the batch), so the two commute.
GestureAndPhotoWritesCommute ==
    [][ /\ (lastOp' = "detect" =>
               /\ userPhotos' = userPhotos
               /\ (cycleWrites' = 1 => StoreSignal' = cycleSignal'))
        /\ (lastOp' = "addUserPhotos" =>
               /\ signalVars' = signalVars
               /\ userPhotos' = userPhotos \o lastBatch') ]_vars

\* C26 witness: a batch was added while a tracked open hand was in the store
\* (a gesture write, then a photo write).
PhotoAfterGestureWitness ==
    /\ lastOp = "addUserPhotos"
    /\ isTracking
    /\ isHandOpen
    /\ Len(lastBatch) > 0

\* the steps the loading status may take
StatusSteps ==
    { << "INITIALIZING", "LOADING_MODEL" >>, << "LOADING_MODEL", "READY" >>,
      << "LOADING_MODEL", "ERROR" >>, << "READY", "ERROR" >> }

\* C27: the loading status only moves forward along
\* INITIALIZING -> LOADING_MODEL -> READY, with ERROR entered from
\* LOADING_MODEL or READY and never left; a detection cycle writes the
\* gesture signal only while the status is READY.
StatusMovesForward ==
    [][ /\ (status' # status => << status, status' >> \in StatusSteps)
        /\ ((lastOp' = "detect" /\ cycleWrites' = 1) =>
               (status = "READY" /\ status' = "READY")) ]_vars

\* C27 witness: the webcam was denied after the model had loaded, so ERROR
\* was entered from READY; no signal was ever written.
ErrorFromReadyWitness ==
    /\ status = "ERROR"
    /\ lastOp = "webcamDenied"
    /\ mounted
    /\ cycleResult = "none"

\* C28: once VisionManager has been torn down no webcam stream is live:
\* every stream startWebcam obtained has its tracks stopped, whether the
\* teardown came before or after the model load and getUserMedia completed.
NoLiveStreamAfterTeardown ==
    (~mounted /\ visionPc \notin {"loading", "webcam"}) => streamLive # "live"

\* C29: at most one upload batch is processed at a time: isProcessing is
\* true exactly while one batch is in flight, no batch starts while it is
\* true, and every batch that starts sets it back to false in the end,
\* whether its images load, fail to load, or the processing throws.
OneBatchAtATime ==
    /\ [](Len(uploads) <= 1 /\ (isProcessing <=> Len(uploads) = 1))
    /\ [][lastOp' = "filesChosen" => ~isProcessing]_vars
    /\ (isProcessing ~> ~isProcessing)

\* C29 witness: a batch is being processed, one of its images has failed to
\* load and another is still loading; the button is disabled.
BatchInFlightWitness ==
    /\ isProcessing
    /\ Len(uploads) = 1
    /\ uploads[1].pc = "loading"
    /\ Len(uploads[1].results) = 2
    /\ uploads[1].results[1] = ""
    /\ uploads[1].results[2] = "pending"
    /\ ~UploadButtonEnabled(isProcessing)

\* the data URLs of the files that load, in the order of the selection
LoadedUrls(files) ==
    LET Loads(file) == file.loads
        loaded == SelectSeq(files, Loads)
    IN  [k \in 1..Len(loaded) |->
            IF loaded[k].name = "fileA" THEN "photoA" ELSE "photoB"]

\* C30: an image that fails to load is never added to the photo list: the
\* list never holds an empty handle, only the end of a batch changes the
\* list, and it appends the data URLs of the batch's images that loaded, in
\* the order the files were selected, in one append.
FailedImageNeverAdded ==
    /\ [](\A k \in DOMAIN userPhotos : userPhotos[k] # "")
    /\ [][ /\ (userPhotos' # userPhotos => lastOp' = "batchDone")
           /\ (lastOp' = "batchDone" =>
                  userPhotos' = userPhotos \o LoadedUrls(lastFiles')) ]_vars

\* C30 witness: a batch of a file that fails and a file that loads ended,
\* after a batch that had put another photo in the list.
FailedImageSkippedWitness ==
    /\ lastOp = "batchDone"
    /\ Len(lastFiles) = 2
    /\ ~lastFiles[1].loads
    /\ lastFiles[2].name = "fileB"
    /\ userPhotos = << "photoA", "photoB" >>

====
